---- MODULE Spec2Model ----
(***************************************************************************)
(* Backtesting core of stock_picker: BacktestEngine.run_backtest           *)
(* (app/services/backtesting/engine.py) and calculate_metrics              *)
(* (app/services/visualization/performance_metrics.py).                    *)
(*                                                                         *)
(* Under Spec one behaviour is one call of run_backtest after validation   *)
(* and signal generation, followed by the API's conversion of its trades;  *)
(* ValidationSpec starts at the call's first statement, RepeatSpec calls   *)
(* twice, MultiSpec is run_multi_asset_backtest, ApiSpec the endpoints of  *)
(* app/api/v1/endpoints/backtest.py and FactorySpec a StrategyFactory.     *)
(* The call under Spec: the engine's simulation loop bar by bar, its trade *)
(* extraction, then calculate_metrics, which simulates the same signals    *)
(* again with its own loop, force-liquidates, extracts its own trades and  *)
(* aggregates.  Money and share amounts are exact rationals <<n, d>> in    *)
(* lowest terms with d > 0, so that equalities between amounts are exact.  *)
(***************************************************************************)
EXTENDS Integers, Sequences, FiniteSets, TLC

VARIABLES
    pc,                  \* position inside run_backtest
    engine,              \* BacktestEngine fields set by __init__
    strategy,            \* the strategy object: default_position_size, its declared
                         \* minimum history, whether its setup calls validate_data
    data,                \* the frame handed to run_backtest: its columns, its bar count
    signals_df,          \* rows [signal, close] returned by generate_signals
    i,                   \* 1-based index of the next row of the running loop
    cash,                \* local `cash` of the running _simulate_portfolio
    shares,              \* local `shares` of the running _simulate_portfolio
    rows,                \* the four parallel lists of the running loop, as rows
    portfolio_history,   \* BacktestResult.portfolio_history
    trades,              \* BacktestResult.trades
    m_portfolio_history, \* portfolio_history local to calculate_metrics
    m_trades,            \* trades local to calculate_metrics
    metrics,             \* BacktestResult.metrics
    assets_data,         \* run_multi_asset_backtest: the ticker -> frame dict, in order
    metadata_arg,        \* run_multi_asset_backtest: its metadata argument (a reference)
    heap,                \* the metadata dict objects, by address
    results,             \* run_multi_asset_backtest: local `results`, in insertion order
    multi_i,             \* run_multi_asset_backtest: 1-based index of the next item
    multi_pc,            \* run_multi_asset_backtest: "loop", "returned" or "raised"
    backtest_results,    \* backtest.py: the module's _backtest_results, id -> entry
    next_uuid,           \* backtest.py: the next value uuid.uuid4() hands out
    task,                \* backtest.py: the _run_backtest_task in progress, if any
    request,             \* backtest.py: the request being served or last served
    response,            \* backtest.py: the last response an endpoint gave
    factory_strategies,  \* StrategyFactory._strategies, name -> class
    factory_metadata,    \* StrategyFactory._metadata, name -> StrategyMetadata
    factory_type_index,  \* StrategyFactory._type_index, StrategyType -> list of names
    factory_call,        \* the last call made on the factory and whether it raised
    api_trades,          \* backtest.py: _extract_trades(result.trades) of the finished run
    first_run            \* the outputs of an earlier run on the same engine object

runVars == <<pc, engine, strategy, data, signals_df, i, cash, shares, rows,
             portfolio_history, trades, m_portfolio_history, m_trades, metrics>>

multiVars == <<assets_data, metadata_arg, heap, results, multi_i, multi_pc>>

apiVars == <<backtest_results, next_uuid, task, request, response>>

factoryVars == <<factory_strategies, factory_metadata, factory_type_index, factory_call>>

\* what the caller of run_backtest keeps of its results
callerVars == <<api_trades, first_run>>

\* the state a single run of run_backtest leaves alone
outsideRun == <<multiVars, apiVars, factoryVars, callerVars>>

\* the state run_multi_asset_backtest leaves alone
outsideMulti == <<runVars, apiVars, factoryVars, callerVars>>

\* the state the endpoints of backtest.py leave alone
outsideApi == <<runVars, multiVars, factoryVars, callerVars>>

\* the state a StrategyFactory leaves alone
outsideFactory == <<runVars, multiVars, apiVars, callerVars>>

vars == <<runVars, multiVars, apiVars, factoryVars, callerVars>>

(***************************************************************************)
(* Bounds of the explored inputs.                                          *)
(***************************************************************************)
MaxBars == 4
MaxPrice == 2

(***************************************************************************)
(* Exact arithmetic on amounts.                                            *)
(***************************************************************************)
Abs(x) == IF x < 0 THEN -x ELSE x

RECURSIVE GCD(_, _)
GCD(a, b) == IF b = 0 THEN a ELSE GCD(b, a % b)

Rat(n, d) ==
    LET g == GCD(Abs(n), Abs(d))
        s == IF d < 0 THEN -1 ELSE 1
    IN  <<(s * n) \div g, (s * d) \div g>>

Zero == <<0, 1>>
One == <<1, 1>>

\* float('inf') and float('nan'), kept apart from every amount <<n, d>> with d > 0
Inf == <<1, 0>>
NaN == <<0, 0>>

RAdd(a, b) ==
    LET g == GCD(a[2], b[2])
    IN  Rat(a[1] * (b[2] \div g) + b[1] * (a[2] \div g), (a[2] \div g) * b[2])

RNeg(a) == <<-a[1], a[2]>>

RSub(a, b) == RAdd(a, RNeg(b))

RMul(a, b) ==
    LET g1 == GCD(Abs(a[1]), b[2])
        g2 == GCD(Abs(b[1]), a[2])
    IN  Rat((a[1] \div g1) * (b[1] \div g2), (a[2] \div g2) * (b[2] \div g1))

RDiv(a, b) == RMul(a, IF b[1] > 0 THEN <<b[2], b[1]>> ELSE <<-b[2], -b[1]>>)

RPos(a) == a[1] > 0
RNegative(a) == a[1] < 0
RLt(a, b) == RNegative(RSub(a, b))

(***************************************************************************)
(* Inputs.                                                                 *)
(***************************************************************************)
\* the value of strategy.default_position_size when the object has no such attribute
NoAttr == <<>>

Signals == {-1, 0, 1}
Prices == {Rat(p, 1) : p \in 1..MaxPrice}
Capitals == {Rat(10000, 1)}
Commissions == {Zero, Rat(1, 4)}
Slippages == {Zero, Rat(1, 4)}
PositionSizes == {Rat(1, 10), One}
StrategySizes == {NoAttr, Rat(1, 2)}
RiskFreeRates == {Rat(1, 50)}

\* the columns both validators demand, and the engine's fixed floor on the bar count
required_columns == {"open", "high", "low", "close", "volume"}
MinBars == 50
\* BaseStrategy.get_required_history when a strategy does not override it
BaseRequiredHistory == 50

Frames == UNION {[1..n -> [signal : Signals, close : Prices]] : n \in 1..MaxBars}

Last(s) == s[Len(s)]

(***************************************************************************)
(* BacktestEngine._simulate_portfolio, one iteration of the loop.          *)
(***************************************************************************)
ExecutionPriceNoSellSlippage(signal, price) ==
    IF signal = 1 THEN RMul(price, RAdd(One, engine.slippage))
    ELSE price

ExecutionPrice(signal, price) ==
    IF signal = 1 THEN RMul(price, RAdd(One, engine.slippage))
    ELSE IF signal = -1 THEN RMul(price, RSub(One, engine.slippage))
    ELSE price

PositionSizeEngineOnly == engine.position_size_pct

PositionSize ==
    IF strategy.default_position_size # NoAttr
    THEN strategy.default_position_size
    ELSE engine.position_size_pct

EngineTradeNoFlatCheck(st, signal, price) ==
    LET execution_price == ExecutionPrice(signal, price)
    IN  IF signal = 1
        THEN LET position_size == PositionSize
                 investment == RMul(st.cash, position_size)
                 commission_cost == RMul(investment, engine.commission)
                 shares_to_buy == RDiv(RSub(investment, commission_cost), execution_price)
             IN  IF RPos(shares_to_buy)
                 THEN [cash |-> RSub(st.cash, investment),
                       shares |-> RAdd(st.shares, shares_to_buy)]
                 ELSE st
        ELSE IF signal = -1 /\ RPos(st.shares)
        THEN LET proceeds == RMul(st.shares, execution_price)
                 commission_cost == RMul(proceeds, engine.commission)
             IN  [cash |-> RAdd(st.cash, RSub(proceeds, commission_cost)),
                  shares |-> Zero]
        ELSE st

EngineTrade(st, signal, price) ==
    LET execution_price == ExecutionPrice(signal, price)
    IN  IF signal = 1 /\ st.shares = Zero
        THEN LET position_size == PositionSize
                 investment == RMul(st.cash, position_size)
                 commission_cost == RMul(investment, engine.commission)
                 shares_to_buy == RDiv(RSub(investment, commission_cost), execution_price)
             IN  IF RPos(shares_to_buy)
                 THEN [cash |-> RSub(st.cash, investment),
                       shares |-> RAdd(st.shares, shares_to_buy)]
                 ELSE st
        ELSE IF signal = -1 /\ RPos(st.shares)
        THEN LET proceeds == RMul(st.shares, execution_price)
                 commission_cost == RMul(proceeds, engine.commission)
             IN  [cash |-> RAdd(st.cash, RSub(proceeds, commission_cost)),
                  shares |-> Zero]
        ELSE st

EngineRecordAtExecutionPrice(st, signal, price) ==
    [signal |-> signal,
     close |-> price,
     portfolio_value |-> RAdd(st.cash, RMul(st.shares, ExecutionPrice(signal, price))),
     position |-> IF RPos(st.shares) THEN 1 ELSE 0,
     cash |-> st.cash,
     shares |-> st.shares]

EngineRecord(st, signal, price) ==
    [signal |-> signal,
     close |-> price,
     portfolio_value |-> RAdd(st.cash, RMul(st.shares, price)),
     position |-> IF RPos(st.shares) THEN 1 ELSE 0,
     cash |-> st.cash,
     shares |-> st.shares]

(***************************************************************************)
(* performance_metrics._simulate_portfolio, one iteration of the loop and  *)
(* the forced liquidation after it.                                        *)
(***************************************************************************)
MetricsTradeSwappedOperands(st, signal, price, commission) ==
    IF signal = 1 /\ st.shares = Zero
    THEN LET investment == RMul(st.cash, Rat(1, 10))
             commission_cost == RMul(investment, commission)
             shares_to_buy == RDiv(RSub(commission_cost, investment), price)
         IN  [cash |-> RSub(st.cash, investment),
              shares |-> RAdd(st.shares, shares_to_buy)]
    ELSE IF signal = -1 /\ RPos(st.shares)
    THEN LET proceeds == RMul(st.shares, price)
             commission_cost == RMul(proceeds, commission)
         IN  [cash |-> RAdd(st.cash, RSub(proceeds, commission_cost)),
              shares |-> Zero]
    ELSE st

MetricsTrade(st, signal, price, commission) ==
    IF signal = 1 /\ st.shares = Zero
    THEN LET investment == RMul(st.cash, Rat(1, 10))
             commission_cost == RMul(investment, commission)
             shares_to_buy == RDiv(RSub(investment, commission_cost), price)
         IN  [cash |-> RSub(st.cash, investment),
              shares |-> RAdd(st.shares, shares_to_buy)]
    ELSE IF signal = -1 /\ RPos(st.shares)
    THEN LET proceeds == RMul(st.shares, price)
             commission_cost == RMul(proceeds, commission)
         IN  [cash |-> RAdd(st.cash, RSub(proceeds, commission_cost)),
              shares |-> Zero]
    ELSE st

MetricsRecord(st, signal, price) ==
    [signal |-> signal,
     close |-> price,
     portfolio_value |-> RAdd(st.cash, RMul(st.shares, price)),
     position |-> IF RPos(st.shares) THEN 1 ELSE 0,
     cash |-> st.cash,
     shares |-> st.shares]

LiquidatedWithoutCommission(st, final_price, commission) ==
    [cash |-> RAdd(st.cash, RMul(st.shares, final_price)),
     shares |-> Zero]

Liquidated(st, final_price, commission) ==
    LET proceeds == RMul(st.shares, final_price)
        commission_cost == RMul(proceeds, commission)
    IN  [cash |-> RAdd(st.cash, RSub(proceeds, commission_cost)),
         shares |-> Zero]

ForceLiquidate(st, lists, commission) ==
    IF RPos(st.shares)
    THEN LET after == Liquidated(st, Last(lists).close, commission)
         IN  [lists EXCEPT ![Len(lists)] =
                 [@ EXCEPT !.portfolio_value = after.cash,
                           !.position = 0,
                           !.cash = after.cash,
                           !.shares = after.shares]]
    ELSE lists

(***************************************************************************)
(* _extract_trades, the engine's and the metrics module's.  The index of a *)
(* row is its bar number.                                                  *)
(***************************************************************************)
EngineTradeOfPriceProfit(entry, idx, row) ==
    LET profit == RMul(entry.shares, RSub(row.close, entry.price))
    IN  [entry_date |-> entry.idx,
         exit_date |-> idx,
         entry_price |-> entry.price,
         exit_price |-> row.close,
         shares |-> entry.shares,
         profit |-> profit,
         profit_pct |-> IF RPos(entry.value)
                        THEN RMul(RDiv(profit, entry.value), Rat(100, 1))
                        ELSE Zero,
         duration |-> idx - entry.idx,
         entry_value |-> entry.value,
         exit_value |-> row.portfolio_value]

EngineTradeOf(entry, idx, row) ==
    LET profit == RSub(row.portfolio_value, entry.value)
    IN  [entry_date |-> entry.idx,
         exit_date |-> idx,
         entry_price |-> entry.price,
         exit_price |-> row.close,
         shares |-> entry.shares,
         profit |-> profit,
         profit_pct |-> IF RPos(entry.value)
                        THEN RMul(RDiv(profit, entry.value), Rat(100, 1))
                        ELSE Zero,
         duration |-> idx - entry.idx,
         entry_value |-> entry.value,
         exit_value |-> row.portfolio_value]

MetricsTradeOfSwapped(entry, idx, row) ==
    [entry_date |-> entry.idx,
     exit_date |-> idx,
     entry_price |-> entry.price,
     exit_price |-> row.close,
     profit |-> RSub(entry.value, row.portfolio_value),
     return |-> RDiv(RSub(row.close, entry.price), entry.price)]

MetricsTradeOf(entry, idx, row) ==
    [entry_date |-> entry.idx,
     exit_date |-> idx,
     entry_price |-> entry.price,
     exit_price |-> row.close,
     profit |-> RSub(row.portfolio_value, entry.value),
     return |-> RDiv(RSub(row.close, entry.price), entry.price)]

NoEntry == [idx |-> 0, price |-> Zero, value |-> Zero, shares |-> Zero]

EntryOf(idx, row) ==
    [idx |-> idx, price |-> row.close, value |-> row.portfolio_value, shares |-> row.shares]

\* the loop over the rows from idx on.  A row fires a branch only when its
\* position is 1 out of a position or 0 in one; the rows before the next such
\* row leave in_position, entry and the trades alone and are passed over.
RECURSIVE EngineExtractLoop(_, _, _, _, _)
EngineExtractLoop(df, idx, in_position, entry, acc) ==
    LET firing == {j \in idx..Len(df) : df[j].position = IF in_position THEN 0 ELSE 1}
    IN  IF firing = {} THEN acc
        ELSE LET next == CHOOSE j \in firing : \A other \in firing : j <= other
                 row == df[next]
             IN  IF in_position
                 THEN EngineExtractLoop(df, next + 1, FALSE, entry,
                                        Append(acc, EngineTradeOf(entry, next, row)))
                 ELSE EngineExtractLoop(df, next + 1, TRUE, EntryOf(next, row), acc)

EngineExtractTrades(portfolio_df) ==
    EngineExtractLoop(portfolio_df, 1, FALSE, NoEntry, <<>>)

RECURSIVE MetricsExtractLoop(_, _, _, _, _)
MetricsExtractLoop(df, idx, in_position, entry, acc) ==
    LET firing == {j \in idx..Len(df) : df[j].position = IF in_position THEN 0 ELSE 1}
    IN  IF firing = {} THEN acc
        ELSE LET next == CHOOSE j \in firing : \A other \in firing : j <= other
                 row == df[next]
             IN  IF in_position
                 THEN MetricsExtractLoop(df, next + 1, FALSE, entry,
                                         Append(acc, MetricsTradeOf(entry, next, row)))
                 ELSE MetricsExtractLoop(df, next + 1, TRUE, EntryOf(next, row), acc)

MetricsExtractTrades(portfolio_df) ==
    MetricsExtractLoop(portfolio_df, 1, FALSE, NoEntry, <<>>)

(***************************************************************************)
(* Risk statistics of performance_metrics.py.  A standard deviation is     *)
(* NaN for fewer than two values, 0 when all values are equal, and         *)
(* otherwise a positive irrational that is kept as a term over its inputs. *)
(***************************************************************************)
TradingDays == 252

\* portfolio_value.pct_change().dropna()
Returns(values) ==
    [t \in 1..(Len(values) - 1) |-> RDiv(RSub(values[t + 1], values[t]), values[t])]

AllEqual(xs) == \A a, b \in 1..Len(xs) : xs[a] = xs[b]

\* the sum of the first k values; amounts are exact, so the halves add up to
\* the same total as a left-to-right pass
RECURSIVE RSum(_, _)
RSum(xs, k) ==
    IF k = 0 THEN Zero
    ELSE IF k = 1 THEN xs[1]
    ELSE RAdd(RSum(xs, k \div 2), RSum(SubSeq(xs, k \div 2 + 1, k), k - k \div 2))

\* returns.mean() * 252 - risk_free_rate
ExcessReturns(returns, risk_free_rate) ==
    RSub(RMul(RDiv(RSum(returns, Len(returns)), Rat(Len(returns), 1)), Rat(TradingDays, 1)),
         risk_free_rate)

\* xs.std() * np.sqrt(252)
AnnualizedStd(xs) ==
    IF Len(xs) < 2 THEN NaN
    ELSE IF AllEqual(xs) THEN Zero
    ELSE <<"std", xs, TradingDays>>

\* excess / deviation, with deviation neither 0 nor NaN
Over(excess, deviation) == <<"ratio", excess, deviation>>

SharpeRatio(returns, risk_free_rate) ==
    IF Len(returns) = 0 \/ AnnualizedStd(returns) = Zero THEN Zero
    ELSE IF AnnualizedStd(returns) = NaN THEN NaN
    ELSE Over(ExcessReturns(returns, risk_free_rate), AnnualizedStd(returns))

IsDownside(r) == RNegative(r)

SortinoRatioZeroWithoutDownside(returns, risk_free_rate) ==
    IF Len(returns) = 0 THEN Zero
    ELSE LET downside_returns == SelectSeq(returns, IsDownside)
             downside_std == AnnualizedStd(downside_returns)
         IN  IF Len(downside_returns) = 0 THEN Zero
             ELSE IF downside_std = NaN THEN NaN
             ELSE IF downside_std = Zero THEN Zero
             ELSE Over(ExcessReturns(returns, risk_free_rate), downside_std)

SortinoRatio(returns, risk_free_rate) ==
    IF Len(returns) = 0 THEN Zero
    ELSE LET downside_returns == SelectSeq(returns, IsDownside)
             downside_std == AnnualizedStd(downside_returns)
         IN  IF Len(downside_returns) = 0 THEN Inf
             ELSE IF downside_std = NaN THEN NaN
             ELSE IF downside_std = Zero THEN Zero
             ELSE Over(ExcessReturns(returns, risk_free_rate), downside_std)

\* portfolio_values.expanding().max() at bar t
RunningMax(values, t) ==
    CHOOSE v \in {values[k] : k \in 1..t} : \A k \in 1..t : ~RLt(v, values[k])

\* (portfolio_values - running_max) / running_max
Drawdown(values) ==
    [t \in 1..Len(values) |->
        RDiv(RSub(values[t], RunningMax(values, t)), RunningMax(values, t))]

\* drawdown.min() over the first k bars
RMin(xs, k) ==
    CHOOSE v \in {xs[j] : j \in 1..k} : \A j \in 1..k : ~RLt(xs[j], v)

RAbs(a) == <<Abs(a[1]), a[2]>>

\* current_dd_duration after bar k of the loop over drawdown: one more for each
\* bar below zero, and 0 again at each bar that is not below zero
CurrentDurationNoReset(drawdown, k) ==
    Cardinality({j \in 1..k : RNegative(drawdown[j])})

CurrentDuration(drawdown, k) ==
    LET resets == {j \in 1..k : ~RNegative(drawdown[j])}
    IN  IF resets = {} THEN k
        ELSE k - (CHOOSE j \in resets : \A other \in resets : other <= j)

\* max_dd_duration at the end of the loop: the largest current_dd_duration
\* that a bar below zero has brought
DurationLoop(drawdown) ==
    LET reached == {CurrentDuration(drawdown, k) :
                        k \in {j \in 1..Len(drawdown) : RNegative(drawdown[j])}}
    IN  IF reached = {} THEN 0
        ELSE CHOOSE d \in reached : \A other \in reached : other <= d

DrawdownMetrics(values) ==
    LET drawdown == Drawdown(values)
        max_drawdown == RMin(drawdown, Len(drawdown))
        drawdown_periods == SelectSeq(drawdown, RNegative)
        average_drawdown ==
            IF Len(drawdown_periods) > 0
            THEN RDiv(RSum(drawdown_periods, Len(drawdown_periods)),
                      Rat(Len(drawdown_periods), 1))
            ELSE Zero
    IN  [max_drawdown |-> RAbs(max_drawdown),
         average_drawdown |-> RAbs(average_drawdown),
         max_drawdown_duration |-> DurationLoop(drawdown)]

(***************************************************************************)
(* calculate_metrics: the aggregates computed from its own trajectory.     *)
(***************************************************************************)
NoMetrics == [computed |-> FALSE]

IsWinOrBreakEven(t) == ~RNegative(t.profit)

IsWin(t) == RPos(t.profit)

IsLoss(t) == RNegative(t.profit)

\* sum(wins) and sum(losses) of calculate_metrics, over the first k trades
RECURSIVE SumWins(_, _)
SumWins(ts, k) ==
    IF k = 0 THEN Zero
    ELSE RAdd(SumWins(ts, k - 1), IF IsWin(ts[k]) THEN ts[k].profit ELSE Zero)

RECURSIVE SumLosses(_, _)
SumLosses(ts, k) ==
    IF k = 0 THEN Zero
    ELSE RAdd(SumLosses(ts, k - 1), IF IsLoss(ts[k]) THEN ts[k].profit ELSE Zero)

ProfitFactor(trade_list) ==
    LET total_wins == SumWins(trade_list, Len(trade_list))
        total_losses == RNeg(SumLosses(trade_list, Len(trade_list)))
    IN  IF RPos(total_losses) THEN RDiv(total_wins, total_losses) ELSE Inf

\* _calculate_buy_hold_return
BuyHoldReturn(df, initial_capital, commission) ==
    IF Len(df) < 2 THEN Zero
    ELSE LET first_price == df[1].close
             last_price == Last(df).close
             position_size_pct == Rat(1, 10)
             investment_amount == RMul(initial_capital, position_size_pct)
             buy_commission == RMul(investment_amount, commission)
             shares_bought == RDiv(RSub(investment_amount, buy_commission), first_price)
             remaining == RSub(initial_capital, investment_amount)
             proceeds == RMul(shares_bought, last_price)
             sell_commission == RMul(proceeds, commission)
             final_invested_value == RSub(proceeds, sell_commission)
             final_portfolio_value == RAdd(remaining, final_invested_value)
         IN  RDiv(RSub(final_portfolio_value, initial_capital), initial_capital)

TotalReturnFromFirstBar(history, initial_capital) ==
    RDiv(RSub(Last(history).portfolio_value, history[1].portfolio_value),
         history[1].portfolio_value)

TotalReturn(history, initial_capital) ==
    RDiv(RSub(Last(history).portfolio_value, initial_capital), initial_capital)

Aggregate(history, trade_list, df, initial_capital, commission, risk_free_rate) ==
    LET values == [t \in 1..Len(history) |-> history[t].portfolio_value]
        returns == Returns(values)
        final_value == Last(history).portfolio_value
        total_trades == Len(trade_list)
        winning_trades == Cardinality({k \in 1..Len(trade_list) : IsWin(trade_list[k])})
        losing_trades == Cardinality({k \in 1..Len(trade_list) : IsLoss(trade_list[k])})
    IN  [computed |-> TRUE,
         total_return |-> TotalReturn(history, initial_capital),
         total_trades |-> total_trades,
         winning_trades |-> winning_trades,
         losing_trades |-> losing_trades,
         win_rate |-> IF total_trades > 0 THEN Rat(winning_trades, total_trades) ELSE Zero,
         profit_factor |-> ProfitFactor(trade_list),
         sharpe_ratio |-> SharpeRatio(returns, risk_free_rate),
         sortino_ratio |-> SortinoRatio(returns, risk_free_rate),
         max_drawdown |-> DrawdownMetrics(values).max_drawdown,
         max_drawdown_duration |-> DrawdownMetrics(values).max_drawdown_duration,
         average_drawdown |-> DrawdownMetrics(values).average_drawdown,
         volatility |-> AnnualizedStd(returns),
         final_portfolio_value |-> final_value,
         initial_portfolio_value |-> initial_capital,
         buy_hold_return |-> BuyHoldReturn(df, initial_capital, commission)]

(***************************************************************************)
(* The run.                                                                *)
(***************************************************************************)
\* Python's None, also the null reference
None == 0

\* no call of run_multi_asset_backtest is in progress
MultiIdle ==
    /\ assets_data = <<>>
    /\ metadata_arg = None
    /\ heap = <<>>
    /\ results = <<>>
    /\ multi_i = 1
    /\ multi_pc = "idle"

\* an Optional value: None is the empty tuple, a value is the tuple holding it
Nothing == <<>>

Some(x) == <<x>>

\* backtest.py as imported: an empty store, nothing served yet
ApiIdle ==
    /\ backtest_results = <<>>
    /\ next_uuid = 1
    /\ task = Nothing
    /\ request = Nothing
    /\ response = Nothing

\* strategy_factory.py, StrategyFactory.__init__: three empty dicts
FactoryIdle ==
    /\ factory_strategies = <<>>
    /\ factory_metadata = <<>>
    /\ factory_type_index = <<>>
    /\ factory_call = Nothing

\* the caller holds nothing of a run yet
CallerIdle ==
    /\ api_trades = Nothing
    /\ first_run = Nothing

OutsideRunIdle == MultiIdle /\ ApiIdle /\ FactoryIdle /\ CallerIdle

Init ==
    /\ OutsideRunIdle
    /\ pc = "simulate"
    /\ engine \in [initial_capital : Capitals, commission : Commissions,
                   slippage : Slippages, position_size_pct : PositionSizes,
                   risk_free_rate : RiskFreeRates]
    /\ strategy \in [default_position_size : StrategySizes,
                     required_history : {BaseRequiredHistory},
                     setup_validates : {FALSE}]
    /\ data = [columns |-> required_columns, bars |-> MinBars]
    /\ signals_df \in Frames
    /\ i = 1
    /\ cash = engine.initial_capital
    /\ shares = Zero
    /\ rows = <<>>
    /\ portfolio_history = <<>>
    /\ trades = <<>>
    /\ m_portfolio_history = <<>>
    /\ m_trades = <<>>
    /\ metrics = NoMetrics

\* engine.py, the body of the loop of _simulate_portfolio
SimulateBar ==
    /\ pc = "simulate"
    /\ i <= Len(signals_df)
    /\ LET row == signals_df[i]
           st == EngineTrade([cash |-> cash, shares |-> shares], row.signal, row.close)
       IN  /\ cash' = st.cash
           /\ shares' = st.shares
           /\ rows' = Append(rows, EngineRecord(st, row.signal, row.close))
    /\ i' = i + 1
    /\ UNCHANGED <<pc, engine, strategy, data, signals_df, portfolio_history, trades,
                   m_portfolio_history, m_trades, metrics>>
    /\ UNCHANGED outsideRun

\* engine.py, _simulate_portfolio returns the frame to run_backtest
SimulateReturn ==
    /\ pc = "simulate"
    /\ i > Len(signals_df)
    /\ portfolio_history' = rows
    /\ pc' = "extract"
    /\ UNCHANGED <<engine, strategy, data, signals_df, i, cash, shares, rows, trades,
                   m_portfolio_history, m_trades, metrics>>
    /\ UNCHANGED outsideRun

\* engine.py, run_backtest calls _extract_trades and enters calculate_metrics
ExtractTrades ==
    /\ pc = "extract"
    /\ trades' = EngineExtractTrades(portfolio_history)
    /\ pc' = "m_simulate"
    /\ i' = 1
    /\ cash' = engine.initial_capital
    /\ shares' = Zero
    /\ rows' = <<>>
    /\ UNCHANGED <<engine, strategy, data, signals_df, portfolio_history,
                   m_portfolio_history, m_trades, metrics>>
    /\ UNCHANGED outsideRun

\* performance_metrics.py, the body of the loop of _simulate_portfolio
MetricsSimulateBar ==
    /\ pc = "m_simulate"
    /\ i <= Len(signals_df)
    /\ LET row == signals_df[i]
           st == MetricsTrade([cash |-> cash, shares |-> shares], row.signal, row.close,
                              engine.commission)
       IN  /\ cash' = st.cash
           /\ shares' = st.shares
           /\ rows' = Append(rows, MetricsRecord(st, row.signal, row.close))
    /\ i' = i + 1
    /\ UNCHANGED <<pc, engine, strategy, data, signals_df, portfolio_history, trades,
                   m_portfolio_history, m_trades, metrics>>
    /\ UNCHANGED outsideRun

\* performance_metrics.py, the forced liquidation and the return of the frame
MetricsLiquidate ==
    /\ pc = "m_simulate"
    /\ i > Len(signals_df)
    /\ LET st == [cash |-> cash, shares |-> shares]
           after == IF RPos(shares)
                    THEN Liquidated(st, Last(rows).close, engine.commission)
                    ELSE st
           lists == ForceLiquidate(st, rows, engine.commission)
       IN  /\ cash' = after.cash
           /\ shares' = after.shares
           /\ rows' = lists
           /\ m_portfolio_history' = lists
    /\ pc' = "m_metrics"
    /\ UNCHANGED <<engine, strategy, data, signals_df, i, portfolio_history, trades,
                   m_trades, metrics>>
    /\ UNCHANGED outsideRun

\* performance_metrics.py, calculate_metrics after its simulation
CalculateMetrics ==
    /\ pc = "m_metrics"
    /\ m_trades' = MetricsExtractTrades(m_portfolio_history)
    /\ metrics' = Aggregate(m_portfolio_history,
                            MetricsExtractTrades(m_portfolio_history),
                            signals_df, engine.initial_capital, engine.commission,
                            engine.risk_free_rate)
    /\ pc' = "done"
    /\ UNCHANGED <<engine, strategy, data, signals_df, i, cash, shares, rows,
                   portfolio_history, trades, m_portfolio_history>>
    /\ UNCHANGED outsideRun

\* dict.get(key) of a trade dict: Nothing when the dict has no such key
Get(trade, key) == IF key \in DOMAIN trade THEN Some(trade[key]) ELSE Nothing

\* `float(x) if x else None` for the value dict.get returned: None for a missing
\* key and for the zero of the value's type
IfTruthy(got, zero) ==
    IF got = Nothing THEN Nothing
    ELSE IF got[1] = zero THEN Nothing
    ELSE got

\* str(date.isoformat())
IsoFormat(date) == <<"iso", date>>

\* backtest.py, _extract_trades: the API Trade built from one engine trade dict
ApiTradeOfEngineKeys(trade) ==
    [entry_date |-> IsoFormat(trade.entry_date),
     exit_date |-> IsoFormat(trade.exit_date),
     entry_price |-> trade.entry_price,
     exit_price |-> IfTruthy(Get(trade, "exit_price"), Zero),
     shares |-> trade.shares,
     profit_loss |-> IfTruthy(Get(trade, "profit"), Zero),
     profit_loss_pct |-> IfTruthy(Get(trade, "profit_pct"), Zero),
     duration_days |-> IfTruthy(Get(trade, "duration"), 0)]

ApiTradeOf(trade) ==
    [entry_date |-> IsoFormat(trade.entry_date),
     exit_date |-> IsoFormat(trade.exit_date),
     entry_price |-> trade.entry_price,
     exit_price |-> IfTruthy(Get(trade, "exit_price"), Zero),
     shares |-> trade.shares,
     profit_loss |-> IfTruthy(Get(trade, "profit_loss"), Zero),
     profit_loss_pct |-> IfTruthy(Get(trade, "profit_loss_pct"), Zero),
     duration_days |-> IfTruthy(Get(trade, "duration_days"), 0)]

\* backtest.py, the caller converts result.trades once run_backtest has returned
ConvertTrades ==
    /\ pc = "done"
    /\ api_trades = Nothing
    /\ api_trades' = Some([k \in 1..Len(trades) |-> ApiTradeOf(trades[k])])
    /\ UNCHANGED <<runVars, multiVars, apiVars, factoryVars, first_run>>

Next ==
    \/ SimulateBar
    \/ SimulateReturn
    \/ ExtractTrades
    \/ MetricsSimulateBar
    \/ MetricsLiquidate
    \/ CalculateMetrics
    \/ ConvertTrades

Spec == Init /\ [][Next]_vars

(***************************************************************************)
(* The same engine object runs run_backtest a second time on the same      *)
(* strategy and frame.  Each call starts from its own fresh locals.        *)
(***************************************************************************)
\* what a run hands back: trajectories, trade lists and metrics
Outputs ==
    [portfolio_history |-> portfolio_history, trades |-> trades,
     m_portfolio_history |-> m_portfolio_history, m_trades |-> m_trades,
     metrics |-> metrics]

\* the locals <<cash, shares>> _simulate_portfolio starts from
FreshLocalsLeftOver == <<cash, shares>>

FreshLocals == <<engine.initial_capital, Zero>>

RepeatInit ==
    /\ Init
    /\ engine.slippage = Zero
    /\ engine.position_size_pct = One
    /\ strategy.default_position_size = NoAttr

\* the caller keeps the first result and calls run_backtest again
RunAgain ==
    /\ pc = "done"
    /\ first_run = Nothing
    /\ first_run' = Some(Outputs)
    /\ pc' = "simulate"
    /\ i' = 1
    /\ cash' = FreshLocals[1]
    /\ shares' = FreshLocals[2]
    /\ rows' = <<>>
    /\ portfolio_history' = <<>>
    /\ trades' = <<>>
    /\ m_portfolio_history' = <<>>
    /\ m_trades' = <<>>
    /\ metrics' = NoMetrics
    /\ UNCHANGED <<engine, strategy, data, signals_df>>
    /\ UNCHANGED <<multiVars, apiVars, factoryVars, api_trades>>

RepeatNext ==
    \/ SimulateBar
    \/ SimulateReturn
    \/ ExtractTrades
    \/ MetricsSimulateBar
    \/ MetricsLiquidate
    \/ CalculateMetrics
    \/ RunAgain

RepeatSpec == RepeatInit /\ [][RepeatNext]_vars

(***************************************************************************)
(* run_backtest from its first statement: the two validations, the         *)
(* strategy's signals, then the steps of Spec on a frame of data.bars bars. *)
(***************************************************************************)
\* bar counts on both sides of the engine's floor and of the declared histories
BarCounts == {29, 30, 49, 50, 59, 60}

\* MovingAverageCrossover with slow_period 20 and with slow_period 50 (required
\* history slow_period + 10, setup calls validate_data), and VWMAStrategy (the
\* base class's required history, setup is `pass`)
ValidationStrategies ==
    {[default_position_size |-> NoAttr, required_history |-> 30,
      setup_validates |-> TRUE],
     [default_position_size |-> NoAttr, required_history |-> 60,
      setup_validates |-> TRUE],
     [default_position_size |-> NoAttr, required_history |-> BaseRequiredHistory,
      setup_validates |-> FALSE]}

Missing(d) == required_columns \ d.columns

\* engine.py, _validate_data: TRUE when it raises ValueError
EngineValidateDataRaises(d) ==
    \/ Missing(d) # {}
    \/ d.bars < MinBars

\* base_strategy.py, validate_data: TRUE when it raises ValueError
StrategyValidateDataRaises(s, d) ==
    \/ Missing(d) # {}
    \/ d.bars < s.required_history

\* the frames generate_signals may return for n bars at a flat close: no signal at
\* all, or a buy on the bar before the last and a sell on the last
HoldFrame(n) == [k \in 1..n |-> [signal |-> 0, close |-> One]]

RoundTripFrame(n) ==
    [k \in 1..n |-> [signal |-> IF k = n - 1 THEN 1 ELSE IF k = n THEN -1 ELSE 0,
                     close |-> One]]

GeneratedFrames(n) == {HoldFrame(n), RoundTripFrame(n)}

ValidationInit ==
    /\ OutsideRunIdle
    /\ pc = "validate"
    /\ engine = [initial_capital |-> Rat(10000, 1), commission |-> Zero,
                 slippage |-> Zero, position_size_pct |-> Rat(1, 10),
                 risk_free_rate |-> Rat(1, 50)]
    /\ strategy \in ValidationStrategies
    /\ data \in [columns : SUBSET required_columns, bars : BarCounts]
    /\ signals_df = <<>>
    /\ i = 1
    /\ cash = engine.initial_capital
    /\ shares = Zero
    /\ rows = <<>>
    /\ portfolio_history = <<>>
    /\ trades = <<>>
    /\ m_portfolio_history = <<>>
    /\ m_trades = <<>>
    /\ metrics = NoMetrics

\* engine.py, run_backtest calls self._validate_data(data)
ValidateData ==
    /\ pc = "validate"
    /\ pc' = IF EngineValidateDataRaises(data) THEN "raised" ELSE "setup"
    /\ UNCHANGED <<engine, strategy, data, signals_df, i, cash, shares, rows,
                   portfolio_history, trades, m_portfolio_history, m_trades, metrics>>
    /\ UNCHANGED outsideRun

\* engine.py, run_backtest calls strategy.setup(data)
StrategySetup ==
    /\ pc = "setup"
    /\ pc' = IF strategy.setup_validates /\ StrategyValidateDataRaises(strategy, data)
             THEN "raised"
             ELSE "signals"
    /\ UNCHANGED <<engine, strategy, data, signals_df, i, cash, shares, rows,
                   portfolio_history, trades, m_portfolio_history, m_trades, metrics>>
    /\ UNCHANGED outsideRun

\* engine.py, run_backtest calls strategy.generate_signals(data.copy())
GenerateSignals ==
    /\ pc = "signals"
    /\ signals_df' \in GeneratedFrames(data.bars)
    /\ pc' = "simulate"
    /\ UNCHANGED <<engine, strategy, data, i, cash, shares, rows,
                   portfolio_history, trades, m_portfolio_history, m_trades, metrics>>
    /\ UNCHANGED outsideRun

ValidationNext ==
    \/ ValidateData
    \/ StrategySetup
    \/ GenerateSignals
    \/ SimulateBar
    \/ SimulateReturn
    \/ ExtractTrades
    \/ MetricsSimulateBar
    \/ MetricsLiquidate
    \/ CalculateMetrics

ValidationSpec == ValidationInit /\ [][ValidationNext]_vars

(***************************************************************************)
(* BacktestEngine.run_multi_asset_backtest: one run_backtest per item of   *)
(* assets_data, every call given the same `metadata` argument.  A metadata *)
(* dict is an object on the heap; a BacktestResult holds its address.      *)
(***************************************************************************)
MaxAssets == 2

Tickers == {"AAPL", "MSFT", "GOOG"}

\* timestamps of a frame's index: a calendar day and a time of day
Timestamp(day) == [year |-> 2024, month |-> 1, day |-> day, hour |-> 16]

\* strftime('%Y-%m-%d'): the date fields in the order of the format, the time dropped
Strftime(ts) == <<ts.year, ts.month, ts.day>>

\* frames of the batch: complete or without the volume column, just below or at the
\* engine's floor, starting on one of two days
AssetFrames ==
    {[columns |-> c, bars |-> n, index_first |-> Timestamp(d),
      index_last |-> Timestamp(d + 1)] :
        c \in {required_columns, required_columns \ {"volume"}},
        n \in {MinBars - 1, MinBars},
        d \in {2, 3}}

\* dicts ticker -> frame of 1..MaxAssets items, as the sequence of their items
AssetDicts ==
    {a \in UNION {[1..n -> [ticker : Tickers, data : AssetFrames]] : n \in 1..MaxAssets} :
        \A j, k \in 1..Len(a) : j # k => a[j].ticker # a[k].ticker}

\* the dict a caller passes as `metadata`
CallerMetadata == [note |-> "nightly"]

\* dict.update: the keys of both, the values of `other` where it has the key
Update(d, other) ==
    [k \in DOMAIN d \cup DOMAIN other |-> IF k \in DOMAIN other THEN other[k] ELSE d[k]]

\* engine.py, run_backtest: the keys it writes into metadata (backtest_date, the
\* wall clock, is left out)
RunMetadata(ticker, df) ==
    [ticker |-> ticker,
     strategy |-> "strategy",
     initial_capital |-> engine.initial_capital,
     commission |-> engine.commission,
     slippage |-> engine.slippage,
     start_date |-> Strftime(df.index_first),
     end_date |-> Strftime(df.index_last),
     total_days |-> df.bars]

\* run_backtest raises for this frame: in _validate_data or in strategy.setup
RunBacktestRaises(df) ==
    \/ EngineValidateDataRaises(df)
    \/ strategy.setup_validates /\ StrategyValidateDataRaises(strategy, df)

\* no call of run_backtest is in progress; the engine and the strategy exist
RunIdle ==
    /\ pc = "idle"
    /\ engine = [initial_capital |-> Rat(10000, 1), commission |-> Zero,
                 slippage |-> Zero, position_size_pct |-> Rat(1, 10),
                 risk_free_rate |-> Rat(1, 50)]
    /\ data = [columns |-> required_columns, bars |-> MinBars]
    /\ signals_df = <<>>
    /\ i = 1
    /\ cash = engine.initial_capital
    /\ shares = Zero
    /\ rows = <<>>
    /\ portfolio_history = <<>>
    /\ trades = <<>>
    /\ m_portfolio_history = <<>>
    /\ m_trades = <<>>
    /\ metrics = NoMetrics

MultiInit ==
    /\ RunIdle
    /\ ApiIdle
    /\ FactoryIdle
    /\ CallerIdle
    /\ strategy \in ValidationStrategies
    /\ assets_data \in AssetDicts
    /\ metadata_arg \in {None, 1}
    /\ heap = IF metadata_arg = None THEN <<>> ELSE <<CallerMetadata>>
    /\ results = <<>>
    /\ multi_i = 1
    /\ multi_pc = "loop"

\* engine.py, one iteration of the loop of run_multi_asset_backtest: the whole call
\* of run_backtest for the item and the store into `results`
MultiRunBacktest ==
    /\ multi_pc = "loop"
    /\ multi_i <= Len(assets_data)
    /\ LET item == assets_data[multi_i]
       IN  IF RunBacktestRaises(item.data)
           THEN /\ multi_pc' = "raised"
                /\ UNCHANGED <<heap, results, multi_i>>
           ELSE LET address == IF metadata_arg = None THEN Len(heap) + 1
                               ELSE metadata_arg
                    before == IF metadata_arg = None THEN << >> ELSE heap[address]
                    after == Update(before, RunMetadata(item.ticker, item.data))
                IN  /\ heap' = IF metadata_arg = None THEN Append(heap, after)
                               ELSE [heap EXCEPT ![address] = after]
                    /\ results' = Append(results,
                                         [ticker |-> item.ticker,
                                          strategy_name |-> "strategy",
                                          bars |-> item.data.bars,
                                          metadata |-> address])
                    /\ multi_i' = multi_i + 1
                    /\ UNCHANGED multi_pc
    /\ UNCHANGED <<assets_data, metadata_arg>>
    /\ UNCHANGED outsideMulti

\* engine.py, run_multi_asset_backtest returns `results`
MultiReturn ==
    /\ multi_pc = "loop"
    /\ multi_i > Len(assets_data)
    /\ multi_pc' = "returned"
    /\ UNCHANGED <<assets_data, metadata_arg, heap, results, multi_i>>
    /\ UNCHANGED outsideMulti

MultiNext ==
    \/ MultiRunBacktest
    \/ MultiReturn

MultiSpec == MultiInit /\ [][MultiNext]_vars

(***************************************************************************)
(* The endpoints of app/api/v1/endpoints/backtest.py over the in-memory    *)
(* store _backtest_results.  POST /run awaits _run_backtest_task, whose    *)
(* writes to the store are taken one at a time; the other handlers run     *)
(* between tasks, each as one step.                                        *)
(***************************************************************************)
MaxIds == 3
MaxItems == 2

Ids == 1..MaxIds

\* symbols the data provider has 60 bars for, has 49 bars for, has nothing for
Symbols == {"AAPL", "SHORT", "NODATA"}

\* MovingAverageCrossover configurations: a valid one and one whose constructor raises
ApiStrategies ==
    {[name |-> "MA 20/50", fast_period |-> 20, slow_period |-> 50],
     [name |-> "MA 50/20", fast_period |-> 50, slow_period |-> 20]}

Requests == [symbol : Symbols, strategy : ApiStrategies]

\* market_data.py, fetch_stock_data raises ValueError when the provider has no rows
FetchRaises(symbol) == symbol = "NODATA"

FetchedFrame(symbol) ==
    [columns |-> required_columns, bars |-> IF symbol = "SHORT" THEN 49 ELSE 60]

\* ma_crossover.py, __init__ raises when fast_period >= slow_period
CreateStrategyRaises(config) == config.fast_period >= config.slow_period

\* engine.run_backtest raises: _validate_data, then the strategy's validate_data
\* with get_required_history() = slow_period + 10
EngineRunRaises(df, config) ==
    \/ EngineValidateDataRaises(df)
    \/ df.bars < config.slow_period + 10

\* str(e) of the exception a request's processing raises, Nothing when it succeeds
FailureOf(req) ==
    IF FetchRaises(req.symbol) THEN Some("No data found for symbol")
    ELSE IF CreateStrategyRaises(req.strategy)
    THEN Some("Fast period must be less than slow period")
    ELSE IF EngineRunRaises(FetchedFrame(req.symbol), req.strategy)
    THEN Some("Insufficient data")
    ELSE Nothing

\* the BacktestResults object built for a finished run
BacktestResultsOf(backtest_id, req) ==
    [backtest_id |-> backtest_id, symbol |-> req.symbol, strategy |-> req.strategy,
     metrics |-> <<"metrics", req.symbol, req.strategy.name>>,
     trades |-> <<"trades", req.symbol, req.strategy.name>>,
     status |-> "completed", error_message |-> Nothing]

\* _backtest_results[backtest_id] = entry
Stored(store, backtest_id, entry) ==
    [k \in DOMAIN store \cup {backtest_id} |->
        IF k = backtest_id THEN entry ELSE store[k]]

\* del _backtest_results[backtest_id]
Deleted(store, backtest_id) ==
    [k \in DOMAIN store \ {backtest_id} |-> store[k]]

ApiInit ==
    /\ RunIdle
    /\ strategy \in [default_position_size : {NoAttr},
                     required_history : {BaseRequiredHistory},
                     setup_validates : {FALSE}]
    /\ MultiIdle
    /\ ApiIdle
    /\ FactoryIdle
    /\ CallerIdle

\* the entry of the task in progress
TaskEntry == backtest_results[task[1].backtest_id]

\* the task moves to position `to` after writing `fields` into its entry
TaskWrites(fields, to) ==
    /\ backtest_results' =
         [backtest_results EXCEPT ![task[1].backtest_id] = Update(@, fields)]
    /\ task' = Some([task[1] EXCEPT !.pc = to])
    /\ UNCHANGED <<next_uuid, request, response>>
    /\ UNCHANGED outsideApi

\* the task jumps to its except clause without writing
TaskRaises ==
    /\ task' = Some([task[1] EXCEPT !.pc = "except"])
    /\ UNCHANGED <<backtest_results, next_uuid, request, response>>
    /\ UNCHANGED outsideApi

TaskAt(position) == task # Nothing /\ task[1].pc = position

\* the entry POST /run creates
PendingEntryFullProgress ==
    [status |-> "pending", progress |-> One, result |-> Nothing, error |-> Nothing]

PendingEntry ==
    [status |-> "pending", progress |-> Zero, result |-> Nothing, error |-> Nothing]

\* POST /run up to the await: a fresh id, the pending entry; no response yet
RunBacktest ==
    /\ task = Nothing
    /\ next_uuid <= MaxIds
    /\ \E req \in Requests :
         /\ request' = Some(req)
         /\ backtest_results' = Stored(backtest_results, next_uuid, PendingEntry)
         /\ task' = Some([backtest_id |-> next_uuid, request |-> req, pc |-> "start"])
    /\ next_uuid' = next_uuid + 1
    /\ response' = Nothing
    /\ UNCHANGED outsideApi

\* _run_backtest_task: status = 'running'
TaskSetRunning ==
    /\ TaskAt("start")
    /\ TaskWrites([status |-> "running"], "running")

\* _run_backtest_task: progress = 0.1
TaskProgressStarted ==
    /\ TaskAt("running")
    /\ TaskWrites([progress |-> Rat(1, 10)], "fetch")

\* _run_backtest_task: fetch_stock_data, then progress = 0.3
TaskFetch ==
    /\ TaskAt("fetch")
    /\ IF FetchRaises(task[1].request.symbol) THEN TaskRaises
       ELSE TaskWrites([progress |-> Rat(3, 10)], "create_strategy")

\* _run_backtest_task: _create_strategy_instance, then progress = 0.4
TaskCreateStrategy ==
    /\ TaskAt("create_strategy")
    /\ IF CreateStrategyRaises(task[1].request.strategy) THEN TaskRaises
       ELSE TaskWrites([progress |-> Rat(4, 10)], "create_engine")

\* _run_backtest_task: BacktestEngine(...), then progress = 0.5
TaskCreateEngine ==
    /\ TaskAt("create_engine")
    /\ TaskWrites([progress |-> Rat(5, 10)], "run")

\* _run_backtest_task: engine.run_backtest, then progress = 0.8
TaskRun ==
    /\ TaskAt("run")
    /\ IF EngineRunRaises(FetchedFrame(task[1].request.symbol), task[1].request.strategy)
       THEN TaskRaises
       ELSE TaskWrites([progress |-> Rat(8, 10)], "convert")

\* _run_backtest_task: the conversions to the API schema, then progress = 0.9
TaskConvert ==
    /\ TaskAt("convert")
    /\ TaskWrites([progress |-> Rat(9, 10)], "store_status")

\* _run_backtest_task: status = 'completed'
TaskStoreStatus ==
    /\ TaskAt("store_status")
    /\ TaskWrites([status |-> "completed"], "store_progress")

\* _run_backtest_task: progress = 1.0
TaskStoreProgress ==
    /\ TaskAt("store_progress")
    /\ TaskWrites([progress |-> One], "store_result")

\* _run_backtest_task: result = backtest_result
TaskStoreResult ==
    /\ TaskAt("store_result")
    /\ TaskWrites([result |-> Some(BacktestResultsOf(task[1].backtest_id,
                                                     task[1].request))],
                  "respond")

\* _run_backtest_task, except clause: status = 'failed'
TaskExceptStatus ==
    /\ TaskAt("except")
    /\ TaskWrites([status |-> "failed"], "except_error")

\* _run_backtest_task, except clause: error = error_msg
TaskExceptError ==
    /\ TaskAt("except_error")
    /\ TaskWrites([error |-> FailureOf(task[1].request)], "respond")

\* POST /run after the await: the BacktestStatusResponse
RunRespond ==
    /\ TaskAt("respond")
    /\ response' = Some([endpoint |-> "run", backtest_id |-> task[1].backtest_id,
                         status_code |-> 200,
                         body |-> [status |-> TaskEntry.status,
                                   progress |-> TaskEntry.progress]])
    /\ task' = Nothing
    /\ UNCHANGED <<backtest_results, next_uuid, request>>
    /\ UNCHANGED outsideApi

\* the answer of an endpoint that is neither POST /run nor POST /batch
Answer(endpoint, backtest_id, status_code, body) ==
    /\ task = Nothing
    /\ request' = Some([endpoint |-> endpoint, backtest_id |-> backtest_id])
    /\ response' = Some([endpoint |-> endpoint, backtest_id |-> backtest_id,
                         status_code |-> status_code, body |-> body])
    /\ UNCHANGED <<next_uuid, task>>
    /\ UNCHANGED outsideApi

\* GET /{backtest_id}/status
GetBacktestStatus ==
    \E backtest_id \in Ids :
        /\ UNCHANGED backtest_results
        /\ IF backtest_id \notin DOMAIN backtest_results
           THEN Answer("status", backtest_id, 404, Nothing)
           ELSE Answer("status", backtest_id, 200,
                       Some([status |-> backtest_results[backtest_id].status,
                             progress |-> backtest_results[backtest_id].progress]))

\* the status code and body of GET /{backtest_id}/results
ResultsAnswerWithoutCompletedCheck(store, backtest_id) ==
    IF backtest_id \notin DOMAIN store THEN <<404, Nothing>>
    ELSE IF store[backtest_id].status = "failed" THEN <<500, Nothing>>
    ELSE <<200, store[backtest_id].result>>

ResultsAnswer(store, backtest_id) ==
    IF backtest_id \notin DOMAIN store THEN <<404, Nothing>>
    ELSE IF store[backtest_id].status = "failed" THEN <<500, Nothing>>
    ELSE IF store[backtest_id].status # "completed" THEN <<400, Nothing>>
    ELSE <<200, store[backtest_id].result>>

\* the status code and body of GET /{backtest_id}/metrics and /trades
PartAnswer(store, backtest_id, part) ==
    IF backtest_id \notin DOMAIN store THEN <<404, Nothing>>
    ELSE IF store[backtest_id].status # "completed" THEN <<400, Nothing>>
    ELSE <<200, Some(store[backtest_id].result[1][part])>>

\* GET /{backtest_id}/results
GetBacktestResults ==
    \E backtest_id \in Ids :
        /\ UNCHANGED backtest_results
        /\ Answer("results", backtest_id, ResultsAnswer(backtest_results, backtest_id)[1],
                  ResultsAnswer(backtest_results, backtest_id)[2])

\* GET /{backtest_id}/metrics
GetBacktestMetrics ==
    \E backtest_id \in Ids :
        /\ UNCHANGED backtest_results
        /\ Answer("metrics", backtest_id,
                  PartAnswer(backtest_results, backtest_id, "metrics")[1],
                  PartAnswer(backtest_results, backtest_id, "metrics")[2])

\* GET /{backtest_id}/trades
GetBacktestTrades ==
    \E backtest_id \in Ids :
        /\ UNCHANGED backtest_results
        /\ Answer("trades", backtest_id,
                  PartAnswer(backtest_results, backtest_id, "trades")[1],
                  PartAnswer(backtest_results, backtest_id, "trades")[2])

\* GET /{backtest_id}/summary
GetBacktestSummary ==
    \E backtest_id \in Ids :
        /\ UNCHANGED backtest_results
        /\ IF backtest_id \notin DOMAIN backtest_results
           THEN Answer("summary", backtest_id, 404, Nothing)
           ELSE Answer("summary", backtest_id, 200,
                       Some([status |-> backtest_results[backtest_id].status]))

\* DELETE /{backtest_id}
DeleteBacktest ==
    \E backtest_id \in Ids :
        IF backtest_id \notin DOMAIN backtest_results
        THEN /\ UNCHANGED backtest_results
             /\ Answer("delete", backtest_id, 404, Nothing)
        ELSE /\ backtest_results' = Deleted(backtest_results, backtest_id)
             /\ Answer("delete", backtest_id, 200, Nothing)

\* run_single_backtest: the summary it returns for an item under a fresh id
SummaryOf(backtest_id, item) ==
    [backtest_id |-> backtest_id, symbol |-> item.symbol,
     strategy_name |-> item.strategy.name,
     status |-> IF FailureOf(item) = Nothing THEN "completed" ELSE "failed",
     error_message |-> FailureOf(item)]

\* run_single_backtest: the store after the item; only a finished run is stored
StoredBySingle(store, backtest_id, item) ==
    IF FailureOf(item) = Nothing
    THEN Stored(store, backtest_id,
                [status |-> "completed", progress |-> One,
                 result |-> Some(BacktestResultsOf(backtest_id, item)),
                 error |-> Nothing])
    ELSE store

\* [run_single_backtest(item) for item in request.items] from item k on:
\* <<summaries, store>>, the k-th item of the call run under id uuid + k - 1
RECURSIVE BatchLoopStopAtFailure(_, _, _, _, _)
BatchLoopStopAtFailure(items, k, uuid, store, summaries) ==
    IF k > Len(items) THEN <<summaries, store>>
    ELSE IF FailureOf(items[k]) # Nothing
    THEN <<Append(summaries, SummaryOf(uuid + k - 1, items[k])), store>>
    ELSE BatchLoopStopAtFailure(items, k + 1, uuid,
                                StoredBySingle(store, uuid + k - 1, items[k]),
                                Append(summaries, SummaryOf(uuid + k - 1, items[k])))

RECURSIVE BatchLoop(_, _, _, _, _)
BatchLoop(items, k, uuid, store, summaries) ==
    IF k > Len(items) THEN <<summaries, store>>
    ELSE BatchLoop(items, k + 1, uuid, StoredBySingle(store, uuid + k - 1, items[k]),
                   Append(summaries, SummaryOf(uuid + k - 1, items[k])))

BatchRequests == UNION {[1..n -> Requests] : n \in 1..MaxItems}

\* POST /batch: batch_id takes one uuid, every item one more
RunBatchBacktest ==
    /\ task = Nothing
    /\ \E items \in BatchRequests :
         /\ next_uuid + Len(items) <= MaxIds
         /\ LET ran == BatchLoop(items, 1, next_uuid + 1, backtest_results, <<>>)
            IN  /\ backtest_results' = ran[2]
                /\ response' = Some([endpoint |-> "batch", backtest_id |-> next_uuid,
                                     status_code |-> 200,
                                     body |-> [total_items |-> Len(items),
                                               summaries |-> ran[1]]])
         /\ request' = Some([endpoint |-> "batch", items |-> items])
         /\ next_uuid' = next_uuid + 1 + Len(items)
    /\ UNCHANGED task
    /\ UNCHANGED outsideApi

ApiNext ==
    \/ RunBacktest
    \/ TaskSetRunning
    \/ TaskProgressStarted
    \/ TaskFetch
    \/ TaskCreateStrategy
    \/ TaskCreateEngine
    \/ TaskRun
    \/ TaskConvert
    \/ TaskStoreStatus
    \/ TaskStoreProgress
    \/ TaskStoreResult
    \/ TaskExceptStatus
    \/ TaskExceptError
    \/ RunRespond
    \/ GetBacktestStatus
    \/ GetBacktestResults
    \/ GetBacktestMetrics
    \/ GetBacktestTrades
    \/ GetBacktestSummary
    \/ DeleteBacktest
    \/ RunBatchBacktest

ApiSpec == ApiInit /\ [][ApiNext]_vars

(***************************************************************************)
(* StrategyFactory (app/services/strategy/strategy_factory.py): register,  *)
(* unregister and clear over its three dicts.                              *)
(***************************************************************************)
StrategyNames == {"ma_crossover", "rsi", "macd"}

\* classes handed to register: a subclass of Strategy and a class that is not one
StrategyClasses == {"MovingAverageCrossover", "dict"}

IsSubclassOfStrategy(strategy_class) == strategy_class = "MovingAverageCrossover"

StrategyTypes == {"SIGNAL", "PORTFOLIO"}

\* the metadata argument of register: None or a StrategyMetadata
MetadataArgs == {Nothing} \cup {Some([strategy_type |-> t]) : t \in StrategyTypes}

\* d[key] = value
DictSet(d, key, value) ==
    [k \in DOMAIN d \cup {key} |-> IF k = key THEN value ELSE d[k]]

\* del d[key]
DictDel(d, key) == [k \in DOMAIN d \ {key} |-> d[k]]

\* list.remove(x): the list without the first occurrence of x
RECURSIVE ListRemove(_, _)
ListRemove(list, x) ==
    IF list = <<>> THEN <<>>
    ELSE IF Head(list) = x THEN Tail(list)
    ELSE <<Head(list)>> \o ListRemove(Tail(list), x)

\* register raises: ValueError for a name already registered, TypeError for a class
\* that does not inherit from Strategy
RegisterRaises(name, strategy_class) ==
    \/ name \in DOMAIN factory_strategies
    \/ ~IsSubclassOfStrategy(strategy_class)

\* _type_index after register stored metadata for the name
Indexed(index, strategy_type, name) ==
    DictSet(index, strategy_type,
            Append(IF strategy_type \in DOMAIN index THEN index[strategy_type] ELSE <<>>,
                   name))

\* _type_index after unregister of a name that has metadata
UnindexedNever(index, strategy_type, name) == index

Unindexed(index, strategy_type, name) ==
    IF strategy_type \in DOMAIN index
    THEN DictSet(index, strategy_type, ListRemove(index[strategy_type], name))
    ELSE index

FactoryInit ==
    /\ RunIdle
    /\ strategy \in [default_position_size : {NoAttr},
                     required_history : {BaseRequiredHistory},
                     setup_validates : {FALSE}]
    /\ MultiIdle
    /\ ApiIdle
    /\ FactoryIdle
    /\ CallerIdle

\* StrategyFactory.register
Register ==
    /\ \E name \in StrategyNames, strategy_class \in StrategyClasses,
          metadata \in MetadataArgs :
         /\ factory_call' = Some([op |-> "register", name |-> name,
                                  raised |-> RegisterRaises(name, strategy_class)])
         /\ IF RegisterRaises(name, strategy_class)
            THEN UNCHANGED <<factory_strategies, factory_metadata, factory_type_index>>
            ELSE /\ factory_strategies' = DictSet(factory_strategies, name, strategy_class)
                 /\ IF metadata # Nothing
                    THEN /\ factory_metadata' =
                              DictSet(factory_metadata, name, metadata[1])
                         /\ factory_type_index' =
                              Indexed(factory_type_index, metadata[1].strategy_type, name)
                    ELSE UNCHANGED <<factory_metadata, factory_type_index>>
    /\ UNCHANGED outsideFactory

\* StrategyFactory.unregister
Unregister ==
    /\ \E name \in StrategyNames :
         /\ factory_call' = Some([op |-> "unregister", name |-> name, raised |-> FALSE])
         /\ IF name \in DOMAIN factory_strategies
            THEN /\ factory_strategies' = DictDel(factory_strategies, name)
                 /\ IF name \in DOMAIN factory_metadata
                    THEN /\ factory_type_index' =
                              Unindexed(factory_type_index,
                                        factory_metadata[name].strategy_type, name)
                         /\ factory_metadata' = DictDel(factory_metadata, name)
                    ELSE UNCHANGED <<factory_metadata, factory_type_index>>
            ELSE UNCHANGED <<factory_strategies, factory_metadata, factory_type_index>>
    /\ UNCHANGED outsideFactory

\* StrategyFactory.clear
Clear ==
    /\ factory_strategies' = <<>>
    /\ factory_metadata' = <<>>
    /\ factory_type_index' = <<>>
    /\ factory_call' = Some([op |-> "clear", name |-> "", raised |-> FALSE])
    /\ UNCHANGED outsideFactory

FactoryNext ==
    \/ Register
    \/ Unregister
    \/ Clear

FactorySpec == FactoryInit /\ [][FactoryNext]_vars

TypeOK ==
    /\ pc \in {"simulate", "extract", "m_simulate", "m_metrics", "done"}
    /\ i \in 1..(MaxBars + 1)
    /\ Len(rows) <= Len(signals_df)

(***************************************************************************)
(* The trajectories the claims speak of.                                   *)
(***************************************************************************)
EngineTrajectory == IF pc = "simulate" THEN rows ELSE portfolio_history

MetricsTrajectory == IF pc = "m_simulate" THEN rows ELSE m_portfolio_history

Before(tr, t) ==
    IF t = 1 THEN [cash |-> engine.initial_capital, shares |-> Zero, position |-> 0]
    ELSE [cash |-> tr[t - 1].cash, shares |-> tr[t - 1].shares,
          position |-> tr[t - 1].position]

RoundTrips(tr) ==
    Cardinality({t \in 2..Len(tr) : tr[t - 1].position = 1 /\ tr[t].position = 0})

\* the last bar of the metrics trajectory was closed by forced liquidation
LiquidatedAtEnd(tr) ==
    /\ Len(tr) >= 2
    /\ tr[Len(tr) - 1].position = 1
    /\ Last(tr).signal # -1
    /\ Last(tr).position = 0

\* C1: the trajectory run_backtest returns ends flat: shares = 0 and
\* position = 0 at the final bar, whatever the signals were.
C1_ReturnedTrajectoryEndsFlat ==
    pc = "done" =>
        /\ Last(portfolio_history).shares = Zero
        /\ Last(portfolio_history).position = 0

\* C2: metrics.total_trades equals the number of completed entry->exit pairs
\* of the returned trajectory and the length of the returned trade list.
C2_TotalTradesMatchesReturnedTrajectory ==
    pc = "done" =>
        /\ metrics.total_trades = RoundTrips(portfolio_history)
        /\ metrics.total_trades = Len(trades)

\* C3: metrics.final_portfolio_value equals the last portfolio_value of the
\* returned trajectory.
C3_FinalValueMatchesReturnedTrajectory ==
    pc = "done" =>
        metrics.final_portfolio_value = Last(portfolio_history).portfolio_value

\* C4: at every bar of a simulated trajectory portfolio_value = cash +
\* shares * close, with close the bar's unadjusted close, and position = 1
\* iff shares > 0; also on the final bar after forced liquidation.
ValuedAtClose(tr) ==
    \A t \in 1..Len(tr) :
        /\ tr[t].portfolio_value = RAdd(tr[t].cash, RMul(tr[t].shares, signals_df[t].close))
        /\ tr[t].position \in {0, 1}
        /\ tr[t].position = 1 <=> RPos(tr[t].shares)

C4_ValuedAtUnadjustedClose ==
    /\ ValuedAtClose(EngineTrajectory)
    /\ ValuedAtClose(MetricsTrajectory)

C4_Witness ==
    /\ pc = "done"
    /\ engine.slippage # Zero
    /\ engine.commission # Zero
    /\ Last(portfolio_history).position = 1
    /\ Last(portfolio_history).signal = 1
    /\ LiquidatedAtEnd(m_portfolio_history)

\* C5: the position is FLAT when a simulation starts; handling a bar moves
\* FLAT->LONG only on signal +1 and LONG->FLAT only on signal -1 (the forced
\* liquidation after the last bar is the only other LONG->FLAT move); a +1
\* while LONG and a -1 or 0 while FLAT leave cash and shares as they were,
\* and the recorded row shows the cash, shares and position after the bar.
C5_BarStep ==
    (pc \in {"simulate", "m_simulate"} /\ i <= Len(signals_df)) =>
        LET s == signals_df[i].signal
        IN  /\ i = 1 => shares = Zero
            /\ (~RPos(shares) /\ RPos(shares')) => s = 1
            /\ (RPos(shares) /\ ~RPos(shares')) => s = -1
            /\ ((s = 1 /\ RPos(shares)) \/ (s \in {-1, 0} /\ ~RPos(shares))) =>
                   (cash' = cash /\ shares' = shares)
            /\ Len(rows') = i
            /\ rows'[i].cash = cash'
            /\ rows'[i].shares = shares'
            /\ rows'[i].position = (IF RPos(shares') THEN 1 ELSE 0)

C5_EndStep ==
    (pc \in {"simulate", "m_simulate"} /\ i > Len(signals_df)) =>
        /\ ~RPos(shares) => (cash' = cash /\ shares' = shares)
        /\ pc = "simulate" => (cash' = cash /\ shares' = shares)

C5_TwoStateMachine == [][C5_BarStep /\ C5_EndStep]_vars

C5_Witness ==
    /\ pc = "m_simulate"
    /\ i = 5
    /\ signals_df[1].signal = -1
    /\ signals_df[2].signal = 1
    /\ signals_df[3].signal = 1
    /\ signals_df[4].signal = -1
    /\ rows[3].shares = rows[2].shares
    /\ rows[3].position = 1
    /\ rows[4].position = 0
    /\ Len(trades) = 1

\* C6 as stated: on +1 while flat the engine invests cash * position_size_pct
\* with position_size_pct the engine's configured value, buys
\* (invest - invest*commission) / (close*(1+slippage)) shares and takes
\* invest out of cash.
BuysWith(tr, t, size) ==
    LET b == Before(tr, t)
        invest == RMul(b.cash, size)
        bought == RDiv(RSub(invest, RMul(invest, engine.commission)),
                       RMul(tr[t].close, RAdd(One, engine.slippage)))
    IN  /\ tr[t].cash = RSub(b.cash, invest)
        /\ tr[t].shares = bought

C6_BuyUsesEngineSize ==
    \A t \in 1..Len(EngineTrajectory) :
        (EngineTrajectory[t].signal = 1 /\ Before(EngineTrajectory, t).shares = Zero) =>
            BuysWith(EngineTrajectory, t, engine.position_size_pct)

\* C6 amended: the fraction is the strategy object's default_position_size
\* when the strategy has that attribute, and the engine's position_size_pct
\* only when it has not.
C6_BuyUsesStrategySize ==
    \A t \in 1..Len(EngineTrajectory) :
        (EngineTrajectory[t].signal = 1 /\ Before(EngineTrajectory, t).shares = Zero) =>
            BuysWith(EngineTrajectory, t,
                     IF strategy.default_position_size = NoAttr
                     THEN engine.position_size_pct
                     ELSE strategy.default_position_size)

C6_Witness ==
    /\ pc = "done"
    /\ strategy.default_position_size = Rat(1, 2)
    /\ engine.position_size_pct = Rat(1, 10)
    /\ engine.commission # Zero
    /\ engine.slippage # Zero
    /\ portfolio_history[1].signal = 1
    /\ portfolio_history[1].cash = Rat(5000, 1)
    /\ RPos(portfolio_history[1].shares)

\* C7: on -1 while holding shares the engine sells the whole position at
\* close*(1-slippage): cash grows by proceeds - proceeds*commission and
\* shares becomes 0.
C7_SellsWholePosition ==
    \A t \in 1..Len(EngineTrajectory) :
        LET tr == EngineTrajectory
            b == Before(tr, t)
            proceeds == RMul(b.shares, RMul(tr[t].close, RSub(One, engine.slippage)))
        IN  (tr[t].signal = -1 /\ RPos(b.shares)) =>
                /\ tr[t].cash = RAdd(b.cash, RSub(proceeds, RMul(proceeds, engine.commission)))
                /\ tr[t].shares = Zero

C7_Witness ==
    /\ pc = "done"
    /\ engine.commission # Zero
    /\ engine.slippage # Zero
    /\ \E t \in 2..Len(portfolio_history) :
           /\ portfolio_history[t].signal = -1
           /\ portfolio_history[t - 1].position = 1
           /\ portfolio_history[t].position = 0
           /\ RLt(portfolio_history[t - 1].cash, portfolio_history[t].cash)

\* C8: the forced liquidation of calculate_metrics' simulation sells all
\* shares at the final close less commission, without slippage, and rewrites
\* only the final bar's record (cash, shares = 0, portfolio_value = cash,
\* position = 0); with no open position nothing is rewritten.
C8_LiquidationStep ==
    (pc = "m_simulate" /\ i > Len(signals_df)) =>
        LET n == Len(rows)
            close_last == signals_df[n].close
            cash_after == RAdd(cash, RMul(RMul(shares, close_last),
                                          RSub(One, engine.commission)))
        IN  /\ Len(m_portfolio_history') = n
            /\ \A t \in 1..(n - 1) : m_portfolio_history'[t] = rows[t]
            /\ m_portfolio_history'[n].close = rows[n].close
            /\ m_portfolio_history'[n].signal = rows[n].signal
            /\ RPos(shares) =>
                   /\ m_portfolio_history'[n].cash = cash_after
                   /\ m_portfolio_history'[n].shares = Zero
                   /\ m_portfolio_history'[n].portfolio_value = cash_after
                   /\ m_portfolio_history'[n].position = 0
            /\ ~RPos(shares) => m_portfolio_history'[n] = rows[n]

C9_SharesNeverNegative ==
    /\ ~RNegative(shares)
    /\ \A t \in 1..Len(EngineTrajectory) : ~RNegative(EngineTrajectory[t].shares)
    /\ \A t \in 1..Len(MetricsTrajectory) : ~RNegative(MetricsTrajectory[t].shares)

C9_Witness ==
    /\ pc = "done"
    /\ Len(signals_df) = 4
    /\ signals_df[1].signal = -1
    /\ signals_df[2].signal = 1
    /\ signals_df[3].signal = -1
    /\ signals_df[4].signal = -1
    /\ RPos(m_portfolio_history[2].shares)
    /\ m_portfolio_history[4].shares = Zero
    /\ portfolio_history[4].shares = Zero

\* C10: with commission = slippage = 0, one position opened at the first bar
\* with fraction p of capital C at close Pe and closed at close Px (by the
\* only sell signal, or by forced liquidation when there is none) gives
\* final value (1-p)*C + (p*C/Pe)*Px, total_return p*(Px-Pe)/Pe and exactly
\* one trade, of profit (p*C/Pe)*(Px-Pe).
SinglePositionClosedAt(x) ==
    /\ x \in 2..Len(signals_df)
    /\ signals_df[1].signal = 1
    /\ \A t \in 2..Len(signals_df) : t # x => signals_df[t].signal = 0
    /\ signals_df[x].signal = -1 \/ (x = Len(signals_df) /\ signals_df[x].signal = 0)

C10_SinglePositionResult ==
    \A x \in 1..Len(signals_df) :
        (/\ pc = "done"
         /\ engine.commission = Zero
         /\ engine.slippage = Zero
         /\ strategy.default_position_size \in {NoAttr, engine.position_size_pct}
         /\ SinglePositionClosedAt(x)) =>
            LET p == engine.position_size_pct
                C == engine.initial_capital
                Pe == signals_df[1].close
                Px == signals_df[x].close
                held == RDiv(RMul(p, C), Pe)
            IN  /\ metrics.final_portfolio_value =
                       RAdd(RMul(RSub(One, p), C), RMul(held, Px))
                /\ metrics.total_return = RDiv(RMul(p, RSub(Px, Pe)), Pe)
                /\ metrics.total_trades = 1
                /\ Len(m_trades) = 1
                /\ m_trades[1].profit = RMul(held, RSub(Px, Pe))

\* C11: every extracted trade's profit is the portfolio_value at its exit
\* bar minus the portfolio_value at its entry bar; the entry bar is the bar
\* of a 0->1 change of the position flag and the exit bar the bar of the
\* next 1->0 change.
RoundTripProfit(tr, trade) ==
    LET e == trade.entry_date
        x == trade.exit_date
    IN  /\ e \in 1..Len(tr)
        /\ x \in (e + 1)..Len(tr)
        /\ Before(tr, e).position = 0
        /\ \A t \in e..(x - 1) : tr[t].position = 1
        /\ tr[x].position = 0
        /\ trade.profit = RSub(tr[x].portfolio_value, tr[e].portfolio_value)

C11_ProfitIsValueDifference ==
    /\ \A k \in 1..Len(trades) : RoundTripProfit(portfolio_history, trades[k])
    /\ \A k \in 1..Len(m_trades) : RoundTripProfit(m_portfolio_history, m_trades[k])

C11_Witness ==
    /\ pc = "done"
    /\ engine.commission # Zero
    /\ engine.slippage # Zero
    /\ Len(trades) = 2
    /\ Len(m_trades) = 2
    /\ RPos(trades[1].profit)
    /\ RNegative(m_trades[2].profit)

\* C12 as stated: with nonzero commission the profits of the trades that
\* calculate_metrics extracts add up to portfolio_value[last] minus
\* initial_capital.
RECURSIVE SumProfits(_, _)
SumProfits(ts, k) == IF k = 0 THEN Zero ELSE RAdd(SumProfits(ts, k - 1), ts[k].profit)

ValueBefore(tr, t) == IF t = 1 THEN engine.initial_capital ELSE tr[t - 1].portfolio_value

RECURSIVE EntryDrops(_, _)
EntryDrops(tr, t) ==
    IF t = 0 THEN Zero
    ELSE RAdd(EntryDrops(tr, t - 1),
              IF tr[t].signal = 1 /\ Before(tr, t).shares = Zero
              THEN RSub(ValueBefore(tr, t), tr[t].portfolio_value)
              ELSE Zero)

TotalChange == RSub(Last(m_portfolio_history).portfolio_value, engine.initial_capital)

C12_ProfitsSumToTotalChange ==
    (pc = "done" /\ engine.commission # Zero) =>
        SumProfits(m_trades, Len(m_trades)) = TotalChange

\* C12 amended: the profits add up to the total change plus the drop of
\* portfolio value on every bar where a buy executed (the commission paid
\* at entry, which the trade's entry value already leaves out).
C12_ProfitsSumToChangePlusEntryCost ==
    pc = "done" =>
        SumProfits(m_trades, Len(m_trades)) =
            RAdd(TotalChange, EntryDrops(m_portfolio_history, Len(m_portfolio_history)))

C12_Witness ==
    /\ pc = "done"
    /\ engine.commission # Zero
    /\ Len(m_trades) = 2
    /\ RPos(EntryDrops(m_portfolio_history, Len(m_portfolio_history)))
    /\ SumProfits(m_trades, 2) # TotalChange

\* C13: every trade of the list run_backtest returns has profit_pct =
\* (exit_price - entry_price) / entry_price, from the closes of its entry and
\* exit bars.
C13_ProfitPctIsPriceReturn ==
    pc = "done" =>
        \A k \in 1..Len(trades) :
            LET Pe == portfolio_history[trades[k].entry_date].close
                Px == portfolio_history[trades[k].exit_date].close
            IN  trades[k].profit_pct = RDiv(RSub(Px, Pe), Pe)

\* C14: profit_factor is +infinity when winning trades exist and the losses
\* sum to 0, is 0 whenever no winning trade exists (also with no trades at
\* all), and is sum(positive profits) / |sum(negative profits)| otherwise.
Gains(ts) == {k \in 1..Len(ts) : RPos(ts[k].profit)}
Setbacks(ts) == {k \in 1..Len(ts) : RNegative(ts[k].profit)}

RECURSIVE SumOver(_, _)
SumOver(ts, ks) ==
    IF ks = {} THEN Zero
    ELSE LET k == CHOOSE j \in ks : TRUE
         IN  RAdd(ts[k].profit, SumOver(ts, ks \ {k}))

C14_ProfitFactorPolicy ==
    pc = "done" =>
        LET won == SumOver(m_trades, Gains(m_trades))
            lost == RNeg(SumOver(m_trades, Setbacks(m_trades)))
        IN  IF Gains(m_trades) = {} THEN metrics.profit_factor = Zero
            ELSE IF lost = Zero THEN metrics.profit_factor = Inf
            ELSE metrics.profit_factor = RDiv(won, lost)

\* C15: winning_trades counts the trades with profit > 0, losing_trades
\* those with profit < 0, break-even trades count toward neither;
\* win_rate = winning_trades / total_trades, and 0 with no trades.
BreakEven(ts) == {k \in 1..Len(ts) : ts[k].profit = Zero}

C15_WinLossCounts ==
    pc = "done" =>
        /\ metrics.total_trades = Len(m_trades)
        /\ metrics.winning_trades = Cardinality(Gains(m_trades))
        /\ metrics.losing_trades = Cardinality(Setbacks(m_trades))
        /\ metrics.winning_trades + metrics.losing_trades <= metrics.total_trades
        /\ metrics.winning_trades + metrics.losing_trades = metrics.total_trades
               <=> BreakEven(m_trades) = {}
        /\ metrics.total_trades > 0 =>
               RMul(metrics.win_rate, Rat(metrics.total_trades, 1))
                   = Rat(metrics.winning_trades, 1)
        /\ metrics.total_trades = 0 => metrics.win_rate = Zero

C15_Witness ==
    /\ pc = "done"
    /\ Len(m_trades) = 2
    /\ BreakEven(m_trades) = {1}
    /\ Gains(m_trades) = {2}
    /\ metrics.win_rate = Rat(1, 2)

\* C16 as stated: if no buy ever executes, then for any price series the
\* portfolio value is initial_capital at every bar and calculate_metrics
\* reports total_trades = 0, total_return = 0, max_drawdown = 0, Sharpe = 0
\* and Sortino = +infinity.
NoBuySignal == \A t \in 1..Len(signals_df) : signals_df[t].signal # 1

NoBuyReport ==
    /\ \A t \in 1..Len(portfolio_history) :
           portfolio_history[t].portfolio_value = engine.initial_capital
    /\ \A t \in 1..Len(m_portfolio_history) :
           m_portfolio_history[t].portfolio_value = engine.initial_capital
    /\ Len(m_portfolio_history) = Len(signals_df)
    /\ metrics.total_trades = 0
    /\ metrics.total_return = Zero
    /\ metrics.max_drawdown = Zero
    /\ metrics.sharpe_ratio = Zero
    /\ metrics.sortino_ratio = Inf

C16_NoBuyAnySeries == (pc = "done" /\ NoBuySignal) => NoBuyReport

\* C16 amended: the same for any price series of at least 3 bars, that is
\* with at least two per-bar returns.
C16_NoBuyThreeBars ==
    (pc = "done" /\ NoBuySignal /\ Len(signals_df) >= 3) => NoBuyReport

C16_Witness ==
    /\ pc = "done"
    /\ Len(signals_df) = 4
    /\ \A t \in 1..4 : signals_df[t].signal = (IF t = 2 THEN -1 ELSE 0)
    /\ signals_df[1].close # signals_df[3].close
    /\ metrics.sortino_ratio = Inf
    /\ metrics.volatility = Zero

\* C17: max_drawdown is the largest (runningMax - V_t) / runningMax over the
\* bars, as a non-negative magnitude; max_drawdown_duration is the length of
\* the longest run of consecutive bars strictly below the running maximum;
\* average_drawdown is the mean magnitude over the strictly-below-peak bars,
\* and 0 when there are none.
RLe(a, b) == ~RLt(b, a)

Peak(V, t) == CHOOSE v \in {V[u] : u \in 1..t} : \A u \in 1..t : RLe(V[u], v)

Depth(V, t) == RDiv(RSub(Peak(V, t), V[t]), Peak(V, t))

BelowPeak(V) == {t \in 1..Len(V) : RLt(V[t], Peak(V, t))}

RECURSIVE DepthSum(_, _)
DepthSum(V, ts) ==
    IF ts = {} THEN Zero
    ELSE LET t == CHOOSE u \in ts : TRUE
         IN  RAdd(Depth(V, t), DepthSum(V, ts \ {t}))

BelowRuns(V) ==
    {r \in (1..Len(V)) \X (1..Len(V)) :
        r[1] <= r[2] /\ \A t \in r[1]..r[2] : t \in BelowPeak(V)}

MetricsValues == [t \in 1..Len(m_portfolio_history) |-> m_portfolio_history[t].portfolio_value]

C17_DrawdownStatistics ==
    pc = "done" =>
        LET V == MetricsValues
        IN  /\ \A t \in 1..Len(V) : RLe(Depth(V, t), metrics.max_drawdown)
            /\ \E t \in 1..Len(V) : Depth(V, t) = metrics.max_drawdown
            /\ ~RNegative(metrics.max_drawdown)
            /\ \A r \in BelowRuns(V) : r[2] - r[1] + 1 <= metrics.max_drawdown_duration
            /\ \/ metrics.max_drawdown_duration = 0 /\ BelowRuns(V) = {}
               \/ \E r \in BelowRuns(V) : r[2] - r[1] + 1 = metrics.max_drawdown_duration
            /\ BelowPeak(V) = {} => metrics.average_drawdown = Zero
            /\ BelowPeak(V) # {} =>
                   RMul(metrics.average_drawdown, Rat(Cardinality(BelowPeak(V)), 1))
                       = DepthSum(V, BelowPeak(V))

C17_Witness ==
    /\ pc = "done"
    /\ BelowPeak(MetricsValues) = {2, 4}
    /\ metrics.max_drawdown_duration = 1
    /\ Depth(MetricsValues, 2) # Depth(MetricsValues, 4)
    /\ RPos(metrics.average_drawdown)
    /\ RLt(metrics.average_drawdown, metrics.max_drawdown)

\* C18 as stated: total_return = (V_last - V_0) / V_0 with V_0 the
\* portfolio value recorded at the first bar of the trajectory.
C18_ReturnOnFirstBarValue ==
    pc = "done" =>
        metrics.total_return =
            RDiv(RSub(Last(MetricsValues), MetricsValues[1]), MetricsValues[1])

\* C18 amended: total_return = (V_last - initial_capital) / initial_capital,
\* the base being the capital before the first bar.
C18_ReturnOnInitialCapital ==
    pc = "done" =>
        RMul(metrics.total_return, engine.initial_capital) =
            RSub(Last(MetricsValues), engine.initial_capital)

C18_Witness ==
    /\ pc = "done"
    /\ engine.commission # Zero
    /\ signals_df[1].signal = 1
    /\ MetricsValues[1] # engine.initial_capital
    /\ RPos(metrics.total_return)

\* C19: buy_hold_return is the return of a benchmark that invests, at the
\* first bar, the fraction p of initial_capital that the live strategy run
\* uses for its positions, holds to the last bar and keeps the rest in cash
\* (stated for the runs whose strategy opens a position at the first bar).
C19_BenchmarkUsesRunPositionSize ==
    (pc = "done" /\ Len(signals_df) >= 2 /\ RPos(portfolio_history[1].shares)) =>
        LET p == IF strategy.default_position_size = NoAttr
                 THEN engine.position_size_pct
                 ELSE strategy.default_position_size
            C == engine.initial_capital
            c == engine.commission
            invested == RMul(p, C)
            held == RDiv(RSub(invested, RMul(invested, c)), signals_df[1].close)
            sold == RMul(RMul(held, Last(signals_df).close), RSub(One, c))
        IN  RMul(metrics.buy_hold_return, C) = RSub(RAdd(RSub(C, invested), sold), C)

(***************************************************************************)
(* C20: run_backtest raises, before any bar is simulated, exactly when a   *)
(* required column is missing or the frame has fewer bars than the         *)
(* strategy's get_required_history(); otherwise it runs to its result.     *)
(***************************************************************************)
C20_RaisesExactlyBelowDeclaredHistory ==
    /\ pc = "raised" =>
         /\ rows = <<>> /\ portfolio_history = <<>>
         /\ \/ Missing(data) # {}
            \/ data.bars < strategy.required_history
    /\ (Missing(data) # {} \/ data.bars < strategy.required_history) =>
         pc \in {"validate", "setup", "raised"}

(***************************************************************************)
(* C21: in run_multi_asset_backtest every result's metadata describes the  *)
(* result's own asset (ticker, start_date, end_date, total_days), whether  *)
(* or not the caller supplied a metadata dict.                             *)
(***************************************************************************)
AssetOf(ticker) ==
    (CHOOSE k \in 1..Len(assets_data) : assets_data[k].ticker = ticker)

C21_MetadataDescribesOwnAsset ==
    \A r \in 1..Len(results) :
        LET md == heap[results[r].metadata]
            df == assets_data[AssetOf(results[r].ticker)].data
        IN  /\ md.ticker = results[r].ticker
            /\ md.start_date = <<df.index_first.year, df.index_first.month,
                                 df.index_first.day>>
            /\ md.end_date = <<df.index_last.year, df.index_last.month,
                               df.index_last.day>>
            /\ md.total_days = df.bars

(***************************************************************************)
(* C22: when run_multi_asset_backtest ends, every asset whose own          *)
(* run_backtest does not raise has its BacktestResult in the returned      *)
(* dictionary, whatever happens to the other assets.                       *)
(***************************************************************************)
C22_FailureAbortsOnlyThatAsset ==
    multi_pc \in {"returned", "raised"} =>
        \A k \in 1..Len(assets_data) :
            ~RunBacktestRaises(assets_data[k].data) =>
                /\ multi_pc = "returned"
                /\ \E r \in 1..Len(results) : results[r].ticker = assets_data[k].ticker

(***************************************************************************)
(* C23: the response of POST /batch holds one summary per requested item,  *)
(* in request order, total_items is the number of requested items, and an  *)
(* item's summary is 'failed' exactly when that item's own processing      *)
(* raises: a failing item stops no other item.                             *)
(***************************************************************************)
BatchAnswered == response # Nothing /\ response[1].endpoint = "batch"

C23_OneSummaryPerItem ==
    BatchAnswered =>
        LET items == request[1].items
            body == response[1].body
        IN  /\ body.total_items = Len(items)
            /\ Len(body.summaries) = Len(items)
            /\ \A k \in 1..Len(items) :
                 /\ body.summaries[k].symbol = items[k].symbol
                 /\ body.summaries[k].strategy_name = items[k].strategy.name
                 /\ body.summaries[k].status \in {"completed", "failed"}
                 /\ body.summaries[k].status = "failed" <=>
                      \/ items[k].symbol \in {"NODATA", "SHORT"}
                      \/ items[k].strategy.fast_period >= items[k].strategy.slow_period

C23_Witness ==
    /\ BatchAnswered
    /\ Len(request[1].items) = 2
    /\ response[1].body.summaries[1].status = "failed"
    /\ response[1].body.summaries[2].status = "completed"

(***************************************************************************)
(* C25: GET results, GET metrics and GET trades return data only for an id *)
(* whose stored status is 'completed'; an unknown id answers 404 and an    *)
(* entry that is pending, running or failed answers an error.              *)
(***************************************************************************)
DataAnswered ==
    response # Nothing /\ response[1].endpoint \in {"results", "metrics", "trades"}

\* a store whose only entry has the given status
StoreWith(status) ==
    Stored(<<>>, 1, [status |-> status, progress |-> Rat(1, 2),
                     result |-> Nothing, error |-> Nothing])

C25_DataOnlyWhenCompleted ==
    /\ DataAnswered =>
         LET id == response[1].backtest_id
             answer == response[1]
         IN  /\ id \notin DOMAIN backtest_results =>
                  answer.status_code = 404 /\ answer.body = Nothing
             /\ id \in DOMAIN backtest_results =>
                  IF backtest_results[id].status = "completed"
                  THEN answer.status_code = 200 /\ answer.body # Nothing
                  ELSE answer.status_code \in {400, 500} /\ answer.body = Nothing
    /\ \A status \in {"pending", "running", "failed"} :
         /\ ResultsAnswer(StoreWith(status), 1)[1] \in {400, 500}
         /\ ResultsAnswer(StoreWith(status), 1)[2] = Nothing
         /\ PartAnswer(StoreWith(status), 1, "metrics") = <<400, Nothing>>
         /\ PartAnswer(StoreWith(status), 1, "trades") = <<400, Nothing>>

C25_Witness ==
    /\ DataAnswered
    /\ response[1].backtest_id \in DOMAIN backtest_results
    /\ backtest_results[response[1].backtest_id].status = "failed"
    /\ response[1].status_code = 500
    /\ \E id \in DOMAIN backtest_results : backtest_results[id].status = "completed"

(***************************************************************************)
(* C26: a stored entry's status moves only pending -> running -> completed *)
(* or pending -> running -> failed, its progress never decreases, and in   *)
(* every state result is set iff the status is 'completed', error is set   *)
(* iff it is 'failed', and progress is 1.0 iff it is 'completed'.          *)
(***************************************************************************)
StatusMoves ==
    {<<"pending", "running">>, <<"running", "completed">>, <<"running", "failed">>}

C26_Moves ==
    \A id \in DOMAIN backtest_results \cap DOMAIN backtest_results' :
        /\ \/ backtest_results'[id].status = backtest_results[id].status
           \/ <<backtest_results[id].status, backtest_results'[id].status>> \in StatusMoves
        /\ ~RLt(backtest_results'[id].progress, backtest_results[id].progress)

EntryAtRest(entry) ==
    /\ entry.result # Nothing <=> entry.status = "completed"
    /\ entry.error # Nothing <=> entry.status = "failed"
    /\ entry.progress = <<1, 1>> <=> entry.status = "completed"

EntrySound(entry) ==
    /\ entry.result # Nothing => entry.status = "completed"
    /\ entry.error # Nothing => entry.status = "failed"
    /\ entry.progress = <<1, 1>> => entry.status = "completed"

C26_EntriesAlwaysAtRest ==
    /\ [][C26_Moves]_vars
    /\ [](\A id \in DOMAIN backtest_results : EntryAtRest(backtest_results[id]))

\* amended: the three equivalences hold whenever no _run_backtest_task is in
\* progress; while one is, only their left-to-right halves hold
C26_EntriesAtRestBetweenTasks ==
    /\ [][C26_Moves]_vars
    /\ [](\A id \in DOMAIN backtest_results : EntrySound(backtest_results[id]))
    /\ [](task = Nothing =>
            \A id \in DOMAIN backtest_results : EntryAtRest(backtest_results[id]))

C26_Witness ==
    /\ task # Nothing
    /\ task[1].pc = "store_result"
    /\ backtest_results[task[1].backtest_id].status = "completed"
    /\ \E id \in DOMAIN backtest_results :
         backtest_results[id].status = "failed" /\ backtest_results[id].error # Nothing

(***************************************************************************)
(* C29: every backtest_id in a summary of POST /batch, the ids of failed   *)
(* items included, is a key of the store once the batch has answered.      *)
(***************************************************************************)
C29_SummaryIdsAreStored ==
    BatchAnswered =>
        \A k \in 1..Len(response[1].body.summaries) :
            response[1].body.summaries[k].backtest_id \in DOMAIN backtest_results

(***************************************************************************)
(* C30: after any sequence of register, unregister and clear, metadata is  *)
(* kept only for registered names, every name listed under a type in the   *)
(* type index is registered with metadata of exactly that type and listed  *)
(* once, and a register call that raises changes none of the three dicts.  *)
(***************************************************************************)
Occurrences(list, x) == Cardinality({k \in 1..Len(list) : list[k] = x})

FactoryConsistent ==
    /\ DOMAIN factory_metadata \subseteq DOMAIN factory_strategies
    /\ \A t \in DOMAIN factory_type_index :
         \A k \in 1..Len(factory_type_index[t]) :
            LET name == factory_type_index[t][k]
            IN  /\ name \in DOMAIN factory_strategies
                /\ name \in DOMAIN factory_metadata
                /\ factory_metadata[name].strategy_type = t
                /\ Occurrences(factory_type_index[t], name) = 1

FailedRegisterChangesNothing ==
    (factory_call' # Nothing /\ factory_call'[1].op = "register" /\ factory_call'[1].raised)
        => UNCHANGED <<factory_strategies, factory_metadata, factory_type_index>>

C30_IndexRefersToRegisteredNames ==
    /\ []FactoryConsistent
    /\ [][FailedRegisterChangesNothing]_vars

C30_Witness ==
    /\ factory_call # Nothing
    /\ factory_call[1].op = "register"
    /\ factory_call[1].raised
    /\ \E t \in DOMAIN factory_type_index : Len(factory_type_index[t]) = 2
    /\ \E t \in DOMAIN factory_type_index : factory_type_index[t] = <<>>
    /\ DOMAIN factory_metadata # DOMAIN factory_strategies

MetricsBuyBars ==
    {t \in 1..Len(signals_df) :
        /\ signals_df[t].signal = 1
        /\ Before(m_portfolio_history, t).position = 0}

C27_EveryBuyIsOneTrade ==
    (pc = "done" /\ metrics.computed) =>
        metrics.total_trades = Cardinality(MetricsBuyBars)

(***************************************************************************)
(* C28: every Trade the API builds from an engine trade carries that       *)
(* trade's profit, percentage profit and duration whenever they are        *)
(* non-zero.                                                               *)
(***************************************************************************)
C28_ApiTradeCarriesProfit ==
    api_trades # Nothing =>
        \A k \in 1..Len(trades) :
            /\ trades[k].profit # Zero =>
                 api_trades[1][k].profit_loss = <<trades[k].profit>>
            /\ trades[k].profit_pct # Zero =>
                 api_trades[1][k].profit_loss_pct = <<trades[k].profit_pct>>
            /\ trades[k].duration # 0 =>
                 api_trades[1][k].duration_days = <<trades[k].duration>>

====
